---- MODULE Spec2Model ----
(***************************************************************************)
(* The AiScript interpreter (src/src/interpreter/index.ts) as a state      *)
(* machine.  Every invocation of an async method (exec, _run, _eval, _fn)  *)
(* is a task; `stack` is the synchronous JavaScript call stack, `queue`    *)
(* the FIFO of continuations that an `await` has made ready.  A task runs  *)
(* from its resumption to its next call, await, return or throw in one     *)
(* step.  The abort-handler registry is an array on a heap of arrays,      *)
(* because push mutates the array in place while filter and `= []` make a  *)
(* new one.  Template strings and indexed access are not modelled.         *)
(***************************************************************************)
EXTENDS Integers, Sequences, FiniteSets

VARIABLES
    stepCount,      \* AiScript.stepCount
    stop,           \* AiScript.stop
    maxStep,        \* opts.maxStep: <<>> when absent, <<n>> when configured
    abortHandlers,  \* AiScript.abortHandlers: an index into arrs
    arrs,           \* heap of handler arrays
    hstack,         \* host call stack: abort() activations and running handlers
    frames,         \* heap of scope frames (Map name -> Value)
    tasks,          \* every async invocation made so far
    stack,          \* synchronous call stack of task ids, top last
    queue,          \* ready continuations (microtasks), FIFO
    trace,          \* history: side effects and host-visible events, in order
    budget          \* what the host may still do

vars == <<stepCount, stop, maxStep, abortHandlers, arrs, hstack, frames,
          tasks, stack, queue, trace, budget>>

(***************************************************************************)
(* Bounds of the model.                                                    *)
(***************************************************************************)
MaxAbort == 1        \* abort() calls of the host during a run
MaxExecFn == 1       \* execFn calls of the host after the run
RegAborts == 2       \* abort() calls in the registry-only specification
MaxRegister == 2     \* registerAbortHandler calls of the host
MaxUnregister == 1   \* unregisterAbortHandler calls of the host

(***************************************************************************)
(* Values (./value).                                                       *)
(***************************************************************************)
NULL == [type |-> "null"]
UNDEFINED == [type |-> "undefined"]
BOOL(b) == [type |-> "bool", value |-> b]
NUM(n) == [type |-> "num", value |-> n]
STR(s) == [type |-> "str", value |-> s]
ARR(a) == [type |-> "arr", value |-> a]
OBJ(o) == [type |-> "obj", value |-> o]
FN(args, statements, scope) ==
    [type |-> "fn", native |-> "", args |-> args, statements |-> statements, scope |-> scope]
FN_NATIVE(name) == [type |-> "fn", native |-> name]
RETURN(v) == [type |-> "return", value |-> v]

unWrapRet(v) == IF v.type = "return" THEN v.value ELSE v

(***************************************************************************)
(* Errors.  NoErr is the absence of an error.                              *)
(***************************************************************************)
NoErr == ""
TypeMismatch == "TypeMismatch"
UndefinedVariable == "UndefinedVariable"
DuplicateDeclaration == "DuplicateDeclaration"
StepLimitExceeded == "StepLimitExceeded"
JsTypeError == "TypeError"

(***************************************************************************)
(* AST nodes (./node), with the fields that _eval and _run read.           *)
(***************************************************************************)
N_null == [type |-> "null"]
N_bool(b) == [type |-> "bool", value |-> b]
N_num(n) == [type |-> "num", value |-> n]
N_str(s) == [type |-> "str", value |-> s]
N_arr(items) == [type |-> "arr", value |-> items]
\* an object literal: keys in insertion order and the expression of each
N_obj(keys, exprs) == [type |-> "obj", keys |-> keys, value |-> exprs]
N_var(name) == [type |-> "var", name |-> name]
N_def(name, expr) == [type |-> "def", name |-> name, expr |-> expr]
N_assign(name, expr) == [type |-> "assign", name |-> name, expr |-> expr]
N_call(name, args) == [type |-> "call", name |-> name, args |-> args]
N_prop(obj, path) == [type |-> "prop", obj |-> obj, path |-> path]
N_propCall(obj, path, args) == [type |-> "propCall", obj |-> obj, path |-> path, args |-> args]
N_fn(args, children) == [type |-> "fn", args |-> args, children |-> children]
N_block(statements) == [type |-> "block", statements |-> statements]
N_return(expr) == [type |-> "return", expr |-> expr]
\* hasElse tells a present else branch from an absent one
N_if(cond, then, elseif, hasElse, else) ==
    [type |-> "if", cond |-> cond, then |-> then, elseif |-> elseif,
     hasElse |-> hasElse, else |-> else]
N_elseif(cond, then) == [cond |-> cond, then |-> then]
N_forTimes(times, s) == [type |-> "for", hasTimes |-> TRUE, times |-> times, s |-> s]
N_forRange(var, from, to, s) ==
    [type |-> "for", hasTimes |-> FALSE, var |-> var, from |-> from, to |-> to, s |-> s]
N_forOf(var, items, s) == [type |-> "forOf", var |-> var, items |-> items, s |-> s]

(***************************************************************************)
(* Type assertions (./util): TRUE when the assertion passes.               *)
(***************************************************************************)
assertNumber(v) == v.type = "num"
assertString(v) == v.type = "str"
assertFunction(v) == v.type = "fn"
assertBoolean(v) == v.type = "bool"
assertObject(v) == v.type = "obj"
assertArray(v) == v.type = "arr"

(***************************************************************************)
(* Scope (./scope): a chain of frame ids, innermost first; the frames      *)
(* themselves live in `frames` and are shared by every chain holding them. *)
(***************************************************************************)
EmptyMap == [k \in {} |-> NULL]

MapSet(m, k, v) == [x \in (DOMAIN m) \cup {k} |-> IF x = k THEN v ELSE m[x]]

\* the position in the chain of the innermost frame binding name, 0 if none
ScopeOwner(fs, sc, name) ==
    LET hits == {i \in DOMAIN sc : name \in DOMAIN fs[sc[i]]}
    IN  IF hits = {} THEN 0 ELSE CHOOSE i \in hits : \A j \in hits : i <= j

ScopeHas(fs, sc, name) == ScopeOwner(fs, sc, name) # 0

ScopeGet(fs, sc, name) == fs[sc[ScopeOwner(fs, sc, name)]][name]

\* scope.add: legal only when the innermost frame does not bind name
ScopeCanAdd(fs, sc, name) == name \notin DOMAIN fs[sc[1]]

ScopeAdd(fs, sc, name, v) == [fs EXCEPT ![sc[1]] = MapSet(@, name, v)]

ScopeAssign(fs, sc, name, v) ==
    [fs EXCEPT ![sc[ScopeOwner(fs, sc, name)]] = MapSet(@, name, v)]

\* scope.createChildScope(states): the new frame is the next heap cell
ChildScope(fs, sc) == <<Len(fs) + 1>> \o sc

ChildFrames(fs, states) == Append(fs, states)

(***************************************************************************)
(* Tasks: one per invocation of an async method.                           *)
(*   wait = "none"   running the code at pc                                *)
(*   wait = "call"   has called a child, which ran until it suspended or   *)
(*                   finished; next comes the rest of the synchronous code *)
(*   wait = "await"  suspended in an await                                 *)
(***************************************************************************)
Task(kind, parent, slot, node, program, fn, args, scope) ==
    [kind |-> kind, parent |-> parent, slot |-> slot, node |-> node,
     program |-> program, fn |-> fn, args |-> args, scope |-> scope,
     pc |-> "start", wait |-> "none", i |-> 0, vals |-> <<>>, acc |-> NULL,
     pending |-> 0, awaiting |-> FALSE, err |-> NoErr,
     status |-> "active", result |-> UNDEFINED]

EvalTask(parent, slot, node, scope) ==
    Task("eval", parent, slot, node, <<>>, NULL, <<>>, scope)

RunTask(parent, slot, program, scope) ==
    Task("run", parent, slot, NULL, program, NULL, <<>>, scope)

FnTask(parent, slot, fn, args) ==
    Task("fn", parent, slot, NULL, <<>>, fn, args, <<>>)

ExecTask(program) == Task("exec", 0, 0, NULL, program, NULL, <<>>, <<1>>)

Undefs(n) == [k \in 1..n |-> UNDEFINED]

\* what the task becomes before it calls one child and awaits it
Awaiting1(t, pc) == [t EXCEPT !.pc = pc, !.vals = <<UNDEFINED>>, !.pending = 1]

(***************************************************************************)
(* Promise plumbing.  A task's promise settles when the task returns or    *)
(* throws; the parent awaiting it (alone, or through Promise.all) becomes  *)
(* ready when all it awaits are fulfilled or one is rejected.  A parent    *)
(* whose await has already been rejected, or that is gone, ignores it.     *)
(***************************************************************************)
Listening(ts, id) ==
    LET p == ts[id].parent
    IN  p # 0 /\ ts[p].status = "active" /\ ts[p].err = NoErr

\* mutant: the await ends as soon as one of the awaited promises settles
WakesOnFirst(ts, id, e) ==
    LET p == ts[id].parent
    IN  Listening(ts, id) /\ ts[p].awaiting

Wakes(ts, id, e) ==
    LET p == ts[id].parent
    IN  /\ Listening(ts, id)
        /\ ts[p].awaiting
        /\ (e # NoErr \/ ts[p].pending = 1)

SettleTasks(ts, id, v, e) ==
    LET p == ts[id].parent
        me == [ts[id] EXCEPT !.status = IF e = NoErr THEN "done" ELSE "failed",
                             !.result = v, !.err = e, !.wait = "none"]
        ts1 == [ts EXCEPT ![id] = me]
    IN  IF ~Listening(ts, id) THEN ts1
        ELSE IF e = NoErr
             THEN [ts1 EXCEPT ![p].vals[ts[id].slot] = v,
                              ![p].pending = @ - 1,
                              ![p].awaiting = IF Wakes(ts, id, e) THEN FALSE ELSE @]
             ELSE [ts1 EXCEPT ![p].err = e, ![p].awaiting = FALSE]

SettleQueue(ts, q, id, e) ==
    IF Wakes(ts, id, e) THEN Append(q, ts[id].parent) ELSE q

PopTop == SubSeq(stack, 1, Len(stack) - 1)

\* return v
Ret(id, v) ==
    /\ tasks' = SettleTasks(tasks, id, v, NoErr)
    /\ queue' = SettleQueue(tasks, queue, id, NoErr)
    /\ stack' = PopTop

\* throw e
Thr(id, e) ==
    /\ tasks' = SettleTasks(tasks, id, UNDEFINED, e)
    /\ queue' = SettleQueue(tasks, queue, id, e)
    /\ stack' = PopTop

\* call an async method: the child runs first, on top of the caller
Spn(id, self, child) ==
    /\ tasks' = Append([tasks EXCEPT ![id] = [self EXCEPT !.wait = "call"]], child)
    /\ stack' = Append(stack, Len(tasks) + 1)
    /\ queue' = queue

\* await: suspend; a promise that is already settled resumes in a later tick
Awt(id, self) ==
    LET settled == self.err # NoErr \/ self.pending = 0
    IN  /\ tasks' = [tasks EXCEPT ![id] =
                        [self EXCEPT !.wait = "await", !.awaiting = ~settled]]
        /\ queue' = IF settled THEN Append(queue, id) ELSE queue
        /\ stack' = PopTop

(***************************************************************************)
(* History events.                                                         *)
(***************************************************************************)
EvNative(name, args, task) == [ev |-> "native", name |-> name, args |-> args, task |-> task]
EvAdd(name, v, frame, task) ==
    [ev |-> "add", name |-> name, value |-> v, frame |-> frame, task |-> task]
EvAssign(name, v, frame, task) ==
    [ev |-> "assign", name |-> name, value |-> v, frame |-> frame, task |-> task]
EvTrip(task) == [ev |-> "trip", task |-> task]
EvAbort == [ev |-> "abort"]
EvEnd(val) == [ev |-> "end", val |-> val]
EvHandler(h) == [ev |-> "handler", h |-> h]
\* the host called registerAbortHandler ("register") or unregisterAbortHandler
EvRegistry(op, h) == [ev |-> op, h |-> h]
\* abort() returned: the registry it found, the handlers it invoked, the registry it left
EvAbortReturn(snap, fired, left) ==
    [ev |-> "abortReturn", snap |-> snap, fired |-> fired, left |-> left]

(***************************************************************************)
(* _eval, node by node.  Each operator is the code of one case from the    *)
(* switch up to its first call or await (Xxx) or from one await to the     *)
(* next (XxxAfter...).  -t- is the task as it stands, -id- its id.         *)
(***************************************************************************)
Quiet == frames' = frames /\ trace' = trace

\* `return this._run(program, scope.createChildScope())`
RunInChild(id, t, program, states) ==
    /\ Spn(id, Awaiting1(t, "tail"),
           RunTask(id, 1, program, ChildScope(frames, t.scope)))
    /\ frames' = ChildFrames(frames, states)
    /\ trace' = trace

\* `Promise.all(exprs.map(async expr => await this._eval(expr, scope)))`:
\* map calls the first wrapper, which runs _eval until it suspends
AllStart(id, t, exprs, fn) ==
    LET self == [t EXCEPT !.pc = "all", !.fn = fn, !.i = 1,
                          !.vals = Undefs(Len(exprs)), !.pending = Len(exprs)]
    IN  IF exprs = <<>>
        THEN Awt(id, self) /\ Quiet
        ELSE Spn(id, self, EvalTask(id, 1, exprs[1], t.scope)) /\ Quiet

AllExprs(t) == IF t.node.type = "arr" THEN t.node.value ELSE t.node.args

\* map goes on to the next wrapper, then Promise.all is awaited
AllNext(id, t) ==
    IF t.i < Len(AllExprs(t))
    THEN Spn(id, [t EXCEPT !.i = t.i + 1],
             EvalTask(id, t.i + 1, AllExprs(t)[t.i + 1], t.scope)) /\ Quiet
    ELSE Awt(id, t) /\ Quiet

\* `return this._fn(val, args)`
CallFn(id, t) ==
    Spn(id, Awaiting1(t, "tail"), FnTask(id, 1, t.fn, t.vals)) /\ Quiet

EvalCall(id, t) ==
    IF ~ScopeHas(frames, t.scope, t.node.name)
    THEN Thr(id, UndefinedVariable) /\ Quiet
    ELSE LET val == ScopeGet(frames, t.scope, t.node.name)
         IN  IF ~assertFunction(val)
             THEN Thr(id, TypeMismatch) /\ Quiet
             ELSE AllStart(id, t, t.node.args, val)

RECURSIVE Walk(_, _)
\* the walk along node.path: ok is FALSE when assertObject fails
Walk(x, path) ==
    IF path = <<>> THEN [ok |-> TRUE, v |-> x]
    ELSE IF ~assertObject(x) THEN [ok |-> FALSE, v |-> NULL]
    ELSE IF Head(path) \notin DOMAIN x.value THEN [ok |-> TRUE, v |-> NULL]
    ELSE Walk(x.value[Head(path)], Tail(path))

EvalProp(id, t) ==
    IF ~ScopeHas(frames, t.scope, t.node.obj)
    THEN Thr(id, UndefinedVariable) /\ Quiet
    ELSE LET w == Walk(ScopeGet(frames, t.scope, t.node.obj), t.node.path)
         IN  IF w.ok THEN Ret(id, w.v) /\ Quiet
             ELSE Thr(id, TypeMismatch) /\ Quiet

EvalPropCall(id, t) ==
    IF ~ScopeHas(frames, t.scope, t.node.obj)
    THEN Thr(id, UndefinedVariable) /\ Quiet
    ELSE LET w == Walk(ScopeGet(frames, t.scope, t.node.obj), t.node.path)
         IN  IF ~w.ok \/ ~assertFunction(w.v)
             THEN Thr(id, TypeMismatch) /\ Quiet
             ELSE AllStart(id, t, t.node.args, w.v)

EvalIf(id, t) ==
    Spn(id, Awaiting1(t, "cond"), EvalTask(id, 1, t.node.cond, t.scope)) /\ Quiet

\* the else part of the conditional once no elseif is left to try
IfElse(id, t) ==
    IF t.node.hasElse
    THEN RunInChild(id, t, t.node.else, EmptyMap)
    ELSE Ret(id, NULL) /\ Quiet

IfAfterCond(id, t) ==
    LET cond == t.vals[1]
    IN  IF ~assertBoolean(cond) THEN Thr(id, TypeMismatch) /\ Quiet
        ELSE IF cond.value THEN RunInChild(id, t, t.node.then, EmptyMap)
        ELSE IF Len(t.node.elseif) > 0
             THEN Spn(id, [Awaiting1(t, "elseif") EXCEPT !.i = 1],
                      EvalTask(id, 1, t.node.elseif[1].cond, t.scope)) /\ Quiet
             ELSE IfElse(id, t)

IfAfterElseif(id, t) ==
    LET cond == t.vals[1]
    IN  IF ~assertBoolean(cond) THEN Thr(id, TypeMismatch) /\ Quiet
        ELSE IF cond.value THEN RunInChild(id, t, t.node.elseif[t.i].then, EmptyMap)
        ELSE IF t.i < Len(t.node.elseif)
             THEN Spn(id, [Awaiting1(t, "elseif") EXCEPT !.i = t.i + 1],
                      EvalTask(id, 1, t.node.elseif[t.i + 1].cond, t.scope)) /\ Quiet
             ELSE IfElse(id, t)

EvalFor(id, t) ==
    IF t.node.hasTimes
    THEN Spn(id, Awaiting1(t, "times"), EvalTask(id, 1, t.node.times, t.scope)) /\ Quiet
    ELSE Spn(id, Awaiting1(t, "from"), EvalTask(id, 1, t.node.from, t.scope)) /\ Quiet

\* mutant: every iteration gets a child scope, as in the other loops
ForTimesIterChildScope(id, t, times, i) ==
    IF i < times.value + 1
    THEN /\ Spn(id, [Awaiting1(t, "loopTimes") EXCEPT !.i = i, !.acc = times],
                RunTask(id, 1, t.node.s, ChildScope(frames, t.scope)))
         /\ frames' = ChildFrames(frames, EmptyMap)
         /\ trace' = trace
    ELSE Ret(id, NULL) /\ Quiet

\* `for (let i = 1; i < times.value + 1; i++) await this._run(node.s, scope)`
ForTimesIter(id, t, times, i) ==
    IF i < times.value + 1
    THEN Spn(id, [Awaiting1(t, "loopTimes") EXCEPT !.i = i, !.acc = times],
             RunTask(id, 1, t.node.s, t.scope)) /\ Quiet
    ELSE Ret(id, NULL) /\ Quiet

ForAfterTimes(id, t) ==
    IF ~assertNumber(t.vals[1]) THEN Thr(id, TypeMismatch) /\ Quiet
    ELSE ForTimesIter(id, t, t.vals[1], 1)

ForAfterFrom(id, t) ==
    Spn(id, [Awaiting1(t, "to") EXCEPT !.acc = t.vals[1]],
        EvalTask(id, 1, t.node.to, t.scope)) /\ Quiet

\* `for (let i = from.value + 1; i < to.value + 1; i++)`, a child scope each
ForRangeIter(id, t, to, i) ==
    IF i < to.value + 1
    THEN /\ Spn(id, [Awaiting1(t, "loopRange") EXCEPT !.i = i, !.acc = to],
                RunTask(id, 1, t.node.s, ChildScope(frames, t.scope)))
         /\ frames' = ChildFrames(frames, MapSet(EmptyMap, t.node.var, NUM(i)))
         /\ trace' = trace
    ELSE Ret(id, NULL) /\ Quiet

\* mutant: the loop variable starts at from
ForAfterToFromIncluded(id, t) ==
    IF ~assertNumber(t.acc) \/ ~assertNumber(t.vals[1])
    THEN Thr(id, TypeMismatch) /\ Quiet
    ELSE ForRangeIter(id, t, t.vals[1], t.acc.value)

ForAfterTo(id, t) ==
    IF ~assertNumber(t.acc) \/ ~assertNumber(t.vals[1])
    THEN Thr(id, TypeMismatch) /\ Quiet
    ELSE ForRangeIter(id, t, t.vals[1], t.acc.value + 1)

EvalForOf(id, t) ==
    Spn(id, Awaiting1(t, "items"), EvalTask(id, 1, t.node.items, t.scope)) /\ Quiet

\* `for (const item of items.value)`, a child scope each
ForOfIter(id, t, items, i) ==
    IF i <= Len(items.value)
    THEN /\ Spn(id, [Awaiting1(t, "loopOf") EXCEPT !.i = i, !.acc = items],
                RunTask(id, 1, t.node.s, ChildScope(frames, t.scope)))
         /\ frames' = ChildFrames(frames, MapSet(EmptyMap, t.node.var, items.value[i]))
         /\ trace' = trace
    ELSE Ret(id, NULL) /\ Quiet

ForOfAfterItems(id, t) ==
    IF ~assertArray(t.vals[1]) THEN Thr(id, TypeMismatch) /\ Quiet
    ELSE ForOfIter(id, t, t.vals[1], 1)

\* the result of `await this._run(...)` in a loop is dropped
LoopAfterBody(id, t) ==
    CASE t.pc = "loopTimes" -> ForTimesIter(id, t, t.acc, t.i + 1)
      [] t.pc = "loopRange" -> ForRangeIter(id, t, t.acc, t.i + 1)
      [] t.pc = "loopOf" -> ForOfIter(id, t, t.acc, t.i + 1)

EvalDef(id, t) ==
    Spn(id, Awaiting1(t, "def"), EvalTask(id, 1, t.node.expr, t.scope)) /\ Quiet

\* `scope.add(node.name, <the awaited value>); return NULL`
DefAfterExpr(id, t) ==
    IF ~ScopeCanAdd(frames, t.scope, t.node.name)
    THEN Thr(id, DuplicateDeclaration) /\ Quiet
    ELSE /\ Ret(id, NULL)
         /\ frames' = ScopeAdd(frames, t.scope, t.node.name, t.vals[1])
         /\ trace' = Append(trace, EvAdd(t.node.name, t.vals[1], t.scope[1], id))

EvalVar(id, t) ==
    IF ScopeHas(frames, t.scope, t.node.name)
    THEN Ret(id, ScopeGet(frames, t.scope, t.node.name)) /\ Quiet
    ELSE Thr(id, UndefinedVariable) /\ Quiet

EvalAssign(id, t) ==
    Spn(id, Awaiting1(t, "assign"), EvalTask(id, 1, t.node.expr, t.scope)) /\ Quiet

\* `scope.assign(node.name, <the awaited value>); return NULL`
AssignAfterExpr(id, t) ==
    IF ~ScopeHas(frames, t.scope, t.node.name)
    THEN Thr(id, UndefinedVariable) /\ Quiet
    ELSE /\ Ret(id, NULL)
         /\ frames' = ScopeAssign(frames, t.scope, t.node.name, t.vals[1])
         /\ trace' = Append(trace,
                EvAssign(t.node.name, t.vals[1],
                         t.scope[ScopeOwner(frames, t.scope, t.node.name)], id))

EvalArr(id, t) == AllStart(id, t, t.node.value, NULL)

ArrAfterAll(id, t) == Ret(id, ARR(t.vals)) /\ Quiet

\* `for (const k of node.value.keys()) obj.set(k, await this._eval(...))`
ObjIter(id, t, obj, i) ==
    IF i <= Len(t.node.keys)
    THEN Spn(id, [Awaiting1(t, "obj") EXCEPT !.i = i, !.acc = obj],
             EvalTask(id, 1, t.node.value[t.node.keys[i]], t.scope)) /\ Quiet
    ELSE Ret(id, OBJ(obj)) /\ Quiet

EvalObj(id, t) == ObjIter(id, t, EmptyMap, 1)

ObjAfterValue(id, t) ==
    ObjIter(id, t, MapSet(t.acc, t.node.keys[t.i], t.vals[1]), t.i + 1)

EvalFnLiteral(id, t) == Ret(id, FN(t.node.args, t.node.children, t.scope)) /\ Quiet

\* mutant: the block runs in the scope of the block node itself
EvalBlockSameScope(id, t) ==
    Spn(id, Awaiting1(t, "tail"), RunTask(id, 1, t.node.statements, t.scope)) /\ Quiet

EvalBlock(id, t) == RunInChild(id, t, t.node.statements, EmptyMap)

\* the value of `return <promise>`: the awaited callee's
TailAfter(id, t) == Ret(id, t.vals[1]) /\ Quiet

\* the switch of _eval
EvalNode(id, t) ==
    CASE t.node.type = "call" -> EvalCall(id, t)
      [] t.node.type = "if" -> EvalIf(id, t)
      [] t.node.type = "for" -> EvalFor(id, t)
      [] t.node.type = "forOf" -> EvalForOf(id, t)
      [] t.node.type = "def" -> EvalDef(id, t)
      [] t.node.type = "var" -> EvalVar(id, t)
      [] t.node.type = "assign" -> EvalAssign(id, t)
      [] t.node.type = "null" -> Ret(id, NULL) /\ Quiet
      [] t.node.type = "bool" -> Ret(id, BOOL(t.node.value)) /\ Quiet
      [] t.node.type = "num" -> Ret(id, NUM(t.node.value)) /\ Quiet
      [] t.node.type = "str" -> Ret(id, STR(t.node.value)) /\ Quiet
      [] t.node.type = "arr" -> EvalArr(id, t)
      [] t.node.type = "obj" -> EvalObj(id, t)
      [] t.node.type = "prop" -> EvalProp(id, t)
      [] t.node.type = "propCall" -> EvalPropCall(id, t)
      [] t.node.type = "fn" -> EvalFnLiteral(id, t)
      [] t.node.type = "block" -> EvalBlock(id, t)
      [] OTHER -> Thr(id, "unknown ast type") /\ Quiet

\* opts.maxStep is tested for truthiness: 0 and absent both switch the limit off
StepLimitHit(count) == maxStep # <<>> /\ maxStep[1] # 0 /\ count > maxStep[1]

\* mutant: the counter is raised before the stop flag is looked at
EvalEnterCountingFirst(id, t) ==
    /\ stepCount' = stepCount + 1
    /\ IF stop
       THEN Ret(id, NULL) /\ Quiet
       ELSE IF StepLimitHit(stepCount + 1)
            THEN /\ Thr(id, StepLimitExceeded)
                 /\ frames' = frames
                 /\ trace' = Append(trace, EvTrip(id))
            ELSE EvalNode(id, t)

\* the entry of _eval: stop check, stepCount++, step limit, then the switch
EvalEnter(id, t) ==
    IF stop
    THEN Ret(id, NULL) /\ Quiet /\ stepCount' = stepCount
    ELSE /\ stepCount' = stepCount + 1
         /\ IF StepLimitHit(stepCount + 1)
            THEN /\ Thr(id, StepLimitExceeded)
                 /\ frames' = frames
                 /\ trace' = Append(trace, EvTrip(id))
            ELSE EvalNode(id, t)

\* _eval resumed from an await; a rejected await rethrows
EvalResume(id, t) ==
    IF t.err # NoErr THEN Thr(id, t.err) /\ Quiet
    ELSE CASE t.pc = "all" ->
                  IF t.node.type = "arr" THEN ArrAfterAll(id, t) ELSE CallFn(id, t)
           [] t.pc = "tail" -> TailAfter(id, t)
           [] t.pc = "cond" -> IfAfterCond(id, t)
           [] t.pc = "elseif" -> IfAfterElseif(id, t)
           [] t.pc = "times" -> ForAfterTimes(id, t)
           [] t.pc = "from" -> ForAfterFrom(id, t)
           [] t.pc = "to" -> ForAfterTo(id, t)
           [] t.pc = "items" -> ForOfAfterItems(id, t)
           [] t.pc \in {"loopTimes", "loopRange", "loopOf"} -> LoopAfterBody(id, t)
           [] t.pc = "def" -> DefAfterExpr(id, t)
           [] t.pc = "assign" -> AssignAfterExpr(id, t)
           [] t.pc = "obj" -> ObjAfterValue(id, t)

Eval(id, t) ==
    IF t.wait = "call"
    THEN (IF t.pc = "all" THEN AllNext(id, t) ELSE Awt(id, t) /\ Quiet)
         /\ stepCount' = stepCount
    ELSE IF t.pc = "start" THEN EvalEnter(id, t)
    ELSE EvalResume(id, t) /\ stepCount' = stepCount

(***************************************************************************)
(* _run                                                                    *)
(***************************************************************************)
\* the for loop of _run from statement i on, v being the last value
RunLoop(id, t, v, i) ==
    IF i > Len(t.program) THEN Ret(id, v) /\ Quiet
    ELSE LET node == t.program[i]
             self == [Awaiting1(t, IF node.type = "return" THEN "return" ELSE "stmt")
                         EXCEPT !.i = i, !.acc = v]
         IN  IF node.type = "return"
             THEN Spn(id, self, EvalTask(id, 1, node.expr, t.scope)) /\ Quiet
             ELSE Spn(id, self, EvalTask(id, 1, node, t.scope)) /\ Quiet

\* case 'return': `return RETURN(val)`
RunAfterReturn(id, t) == Ret(id, RETURN(t.vals[1])) /\ Quiet

\* mutant: the Return wrapper of a statement is not looked at
RunAfterStmtUnchecked(id, t) ==
    IF t.vals[1] = UNDEFINED THEN Thr(id, JsTypeError) /\ Quiet
    ELSE RunLoop(id, t, t.vals[1], t.i + 1)

\* default: `if (v.type === 'return') return v`, else the next statement
RunAfterStmt(id, t) ==
    LET v == t.vals[1]
    IN  IF v = UNDEFINED THEN Thr(id, JsTypeError) /\ Quiet
        ELSE IF v.type = "return" THEN Ret(id, v) /\ Quiet
        ELSE RunLoop(id, t, v, t.i + 1)

Run(id, t) ==
    IF t.wait = "call" THEN Awt(id, t) /\ Quiet
    ELSE IF t.pc = "start" THEN RunLoop(id, t, NULL, 1)
    ELSE IF t.err # NoErr THEN Thr(id, t.err) /\ Quiet
    ELSE IF t.pc = "return" THEN RunAfterReturn(id, t)
    ELSE RunAfterStmt(id, t)

(***************************************************************************)
(* The abort-handler registry.                                             *)
(***************************************************************************)
\* a handler: of the host (h names it) or of a pending native call (task)
\* reg numbers the registerAbortHandler call that pushed the entry (history only)
HostHandler(h, reg) == [h |-> h, task |-> 0, reg |-> reg]
NativeHandler(task) == [h |-> "native", task |-> task, reg |-> 0]

\* the same function object
SameHandler(x, y) == x.h = y.h /\ x.task = y.task

RECURSIVE Without(_, _)
\* `this.abortHandlers.filter(h => h != handler)`
Without(a, h) ==
    IF a = <<>> THEN <<>>
    ELSE IF SameHandler(Head(a), h) THEN Without(Tail(a), h)
    ELSE <<Head(a)>> \o Without(Tail(a), h)

\* registerAbortHandler: push onto the current array, in place
registerAbortHandler(h) ==
    /\ arrs' = [arrs EXCEPT ![abortHandlers] = Append(@, h)]
    /\ abortHandlers' = abortHandlers

\* unregisterAbortHandler: the registry becomes a new, filtered array
unregisterAbortHandler(h) ==
    /\ arrs' = Append(arrs, Without(arrs[abortHandlers], h))
    /\ abortHandlers' = Len(arrs) + 1

Registry == arrs[abortHandlers]

(***************************************************************************)
(* _fn and the native functions of the root scope: print and readline      *)
(* (constructor), and wait, a host native that registers an abort handler  *)
(* while it is pending.                                                    *)
(***************************************************************************)
NativeNames == {"print", "readline", "wait"}

Inputs == {"in"}

\* the Map _args of _fn: a missing position binds undefined
ArgMap(names, args) ==
    [n \in {names[k] : k \in DOMAIN names} |->
        LET k == CHOOSE j \in DOMAIN names :
                    names[j] = n /\ \A l \in DOMAIN names : names[l] = n => l <= j
        IN  IF k <= Len(args) THEN args[k] ELSE UNDEFINED]

\* `await Promise.resolve(fn.native(args, {...}))` up to the await
FnNative(id, t) ==
    LET name == t.fn.native
        settled(v) == [t EXCEPT !.pc = "native", !.vals = <<v>>, !.pending = 0]
        rejected(e) == [t EXCEPT !.pc = "native", !.err = e]
        pendingOut == [t EXCEPT !.pc = "native", !.vals = <<UNDEFINED>>, !.pending = 1]
    IN  /\ trace' = Append(trace, EvNative(name, t.args, id))
        /\ frames' = frames
        /\ CASE name = "print" ->
                    Awt(id, settled(UNDEFINED)) /\ UNCHANGED <<arrs, abortHandlers>>
             [] name = "readline" ->
                    /\ UNCHANGED <<arrs, abortHandlers>>
                    /\ IF t.args = <<>> \/ t.args[1] = UNDEFINED
                       THEN Awt(id, rejected(JsTypeError))
                       ELSE IF ~assertString(t.args[1])
                       THEN Awt(id, rejected(TypeMismatch))
                       ELSE Awt(id, pendingOut)
             [] name = "wait" ->
                    /\ Awt(id, pendingOut)
                    /\ registerAbortHandler(NativeHandler(id))

\* `return result || NULL`
FnAfterNative(id, t) ==
    /\ Ret(id, IF t.vals[1] = UNDEFINED THEN NULL ELSE t.vals[1])
    /\ Quiet

\* mutant: the parameters are bound in the captured scope itself
FnUserInCaptured(id, t) ==
    /\ Spn(id, Awaiting1(t, "body"), RunTask(id, 1, t.fn.statements, t.fn.scope))
    /\ frames' = [frames EXCEPT ![t.fn.scope[1]] =
                    [n \in (DOMAIN @) \cup DOMAIN ArgMap(t.fn.args, t.args) |->
                        IF n \in DOMAIN ArgMap(t.fn.args, t.args)
                        THEN ArgMap(t.fn.args, t.args)[n] ELSE @[n]]]
    /\ trace' = trace

\* the user-defined branch of _fn up to `await this._run(...)`
FnUser(id, t) ==
    /\ Spn(id, Awaiting1(t, "body"),
           RunTask(id, 1, t.fn.statements, ChildScope(frames, t.fn.scope)))
    /\ frames' = ChildFrames(frames, ArgMap(t.fn.args, t.args))
    /\ trace' = trace

\* `return unWrapRet(<the awaited value>)`
FnAfterBody(id, t) == Ret(id, unWrapRet(t.vals[1])) /\ Quiet

Fn(id, t) ==
    IF t.wait = "call" THEN Awt(id, t) /\ Quiet /\ UNCHANGED <<arrs, abortHandlers>>
    ELSE IF t.pc = "start"
         THEN IF t.fn.native # ""
              THEN FnNative(id, t)
              ELSE FnUser(id, t) /\ UNCHANGED <<arrs, abortHandlers>>
    ELSE /\ UNCHANGED <<arrs, abortHandlers>>
         /\ IF t.err # NoErr THEN Thr(id, t.err) /\ Quiet
            ELSE IF t.pc = "native" THEN FnAfterNative(id, t)
            ELSE FnAfterBody(id, t)

(***************************************************************************)
(* exec                                                                    *)
(***************************************************************************)
ExecBody(id, t) ==
    IF t.wait = "call" THEN Awt(id, t) /\ Quiet
    ELSE IF t.pc = "start"
         THEN IF Len(t.program) = 0
              THEN Ret(id, UNDEFINED) /\ Quiet
              ELSE Spn(id, Awaiting1(t, "end"), RunTask(id, 1, t.program, <<1>>)) /\ Quiet
    ELSE IF t.err # NoErr THEN Thr(id, t.err) /\ Quiet
    ELSE /\ Ret(id, UNDEFINED)
         /\ frames' = frames
         /\ trace' = Append(trace, EvEnd(t.vals[1]))

(***************************************************************************)
(* The scheduler: the synchronous stack first, then the next continuation. *)
(***************************************************************************)
Top == stack[Len(stack)]

Idle == stack = <<>> /\ hstack = <<>>

StepEval ==
    /\ stack # <<>> /\ tasks[Top].kind = "eval"
    /\ Eval(Top, tasks[Top])
    /\ UNCHANGED <<stop, maxStep, abortHandlers, arrs, hstack, budget>>

StepRun ==
    /\ stack # <<>> /\ tasks[Top].kind = "run"
    /\ Run(Top, tasks[Top])
    /\ UNCHANGED <<stepCount, stop, maxStep, abortHandlers, arrs, hstack, budget>>

StepFn ==
    /\ stack # <<>> /\ tasks[Top].kind = "fn"
    /\ Fn(Top, tasks[Top])
    /\ UNCHANGED <<stepCount, stop, maxStep, hstack, budget>>

StepExec ==
    /\ stack # <<>> /\ tasks[Top].kind = "exec"
    /\ ExecBody(Top, tasks[Top])
    /\ UNCHANGED <<stepCount, stop, maxStep, abortHandlers, arrs, hstack, budget>>

\* the next ready continuation runs
Resume ==
    /\ Idle /\ queue # <<>>
    /\ stack' = <<Head(queue)>>
    /\ queue' = Tail(queue)
    /\ tasks' = [tasks EXCEPT ![Head(queue)].wait = "none"]
    /\ UNCHANGED <<stepCount, stop, maxStep, abortHandlers, arrs, hstack, frames,
                   trace, budget>>

\* a pending native call that awaits the outside world
PendingNative(id) ==
    /\ tasks[id].kind = "fn" /\ tasks[id].status = "active"
    /\ tasks[id].pc = "native" /\ tasks[id].awaiting

\* the promise of a pending native call is fulfilled with v
Fulfil(ts, id, v) ==
    [ts EXCEPT ![id].vals = <<v>>, ![id].pending = 0, ![id].awaiting = FALSE]

\* the outside world completes a pending native call: the input provider
\* answers readline; the timer of wait fires, and wait unregisters its handler
NativeSettle ==
    /\ Idle
    /\ \E id \in DOMAIN tasks :
        /\ PendingNative(id)
        /\ queue' = Append(queue, id)
        /\ IF tasks[id].fn.native = "readline"
           THEN /\ \E a \in Inputs : tasks' = Fulfil(tasks, id, STR(a))
                /\ UNCHANGED <<arrs, abortHandlers>>
           ELSE /\ tasks' = Fulfil(tasks, id, NULL)
                /\ unregisterAbortHandler(NativeHandler(id))
    /\ UNCHANGED <<stepCount, stop, maxStep, hstack, frames, stack, trace, budget>>

(***************************************************************************)
(* The host: exec, execFn, abort, and its own abort handlers.              *)
(***************************************************************************)
Handlers == {"h1", "h2"}

HTop == hstack[Len(hstack)]

HPop == SubSeq(hstack, 1, Len(hstack) - 1)

\* the host is at its top level, or inside one of its abort handlers
HostAtTop == Idle

HostInHandler == hstack # <<>> /\ HTop.kind = "handler"

HostMayCall == HostAtTop \/ HostInHandler

\* mutant: the registry is walked from its end
NextHandlerBackwards(a, idx) == a[Len(a) - idx + 1]

\* `for (const handler of this.abortHandlers)`: the handler at position idx
NextHandler(a, idx) == a[idx]

\* `this.abortHandlers = []`
Cleared == <<>>

\* abort(): `this.stop = true`, and the for...of loop over the registry starts
Abort ==
    /\ HostMayCall
    /\ budget.abort > 0
    /\ budget' = [budget EXCEPT !.abort = @ - 1]
    /\ stop' = TRUE
    /\ hstack' = Append(hstack, [kind |-> "abort", arr |-> abortHandlers, idx |-> 1,
                                 snap |-> Registry, fired |-> <<>>])
    /\ trace' = Append(trace, EvAbort)
    /\ UNCHANGED <<stepCount, maxStep, abortHandlers, arrs, frames, tasks, stack, queue>>

\* abort(): the loop invokes the next handler of the array it iterates.  A
\* native's handler completes its pending call; a host handler starts running.
AbortNext ==
    /\ hstack # <<>> /\ HTop.kind = "abort" /\ HTop.idx <= Len(arrs[HTop.arr])
    /\ LET h == NextHandler(arrs[HTop.arr], HTop.idx)
           me == [HTop EXCEPT !.idx = @ + 1, !.fired = Append(@, h)]
       IN  /\ trace' = Append(trace, EvHandler(h))
           /\ IF h.task # 0
              THEN /\ hstack' = [hstack EXCEPT ![Len(hstack)] = me]
                   /\ IF PendingNative(h.task)
                      THEN /\ tasks' = Fulfil(tasks, h.task, NULL)
                           /\ queue' = Append(queue, h.task)
                      ELSE UNCHANGED <<tasks, queue>>
              ELSE /\ hstack' = Append([hstack EXCEPT ![Len(hstack)] = me],
                                       [kind |-> "handler", h |-> h])
                   /\ UNCHANGED <<tasks, queue>>
    /\ UNCHANGED <<stepCount, stop, maxStep, abortHandlers, arrs, frames, stack, budget>>

\* abort(): the loop is over, `this.abortHandlers = []`
AbortReturn ==
    /\ hstack # <<>> /\ HTop.kind = "abort" /\ HTop.idx > Len(arrs[HTop.arr])
    /\ arrs' = Append(arrs, Cleared)
    /\ abortHandlers' = Len(arrs) + 1
    /\ hstack' = HPop
    /\ trace' = Append(trace, EvAbortReturn(HTop.snap, HTop.fired, arrs'[abortHandlers']))
    /\ UNCHANGED <<stepCount, stop, maxStep, frames, tasks, stack, queue, budget>>

\* a host handler returns
HandlerReturn ==
    /\ HostInHandler
    /\ hstack' = HPop
    /\ UNCHANGED <<stepCount, stop, maxStep, abortHandlers, arrs, frames, tasks,
                   stack, queue, trace, budget>>

HostRegister ==
    /\ HostMayCall
    /\ budget.register > 0
    /\ budget' = [budget EXCEPT !.register = @ - 1]
    /\ \E h \in Handlers :
        LET e == HostHandler(h, MaxRegister - budget.register + 1)
        IN  /\ registerAbortHandler(e)
            /\ trace' = Append(trace, EvRegistry("register", e))
    /\ UNCHANGED <<stepCount, stop, maxStep, hstack, frames, tasks, stack, queue>>

HostUnregister ==
    /\ HostMayCall
    /\ budget.unregister > 0
    /\ budget' = [budget EXCEPT !.unregister = @ - 1]
    /\ \E h \in Handlers :
        /\ unregisterAbortHandler(HostHandler(h, 0))
        /\ trace' = Append(trace, EvRegistry("unregister", HostHandler(h, 0)))
    /\ UNCHANGED <<stepCount, stop, maxStep, hstack, frames, tasks, stack, queue>>

(***************************************************************************)
(* Programs.                                                               *)
(***************************************************************************)
CallPrint(e) == N_call("print", <<e>>)

\* def f = fn() { for 2 times { print(1); return 7 }; print(2); 9 }; def r = f()
ProgTimesReturn ==
    << N_def("f", N_fn(<<>>, << N_forTimes(N_num(2), <<CallPrint(N_num(1)), N_return(N_num(7))>>),
                               CallPrint(N_num(2)), N_num(9) >>)),
       N_def("r", N_call("f", <<>>)) >>

\* def f = fn() { for x from 0 to 2 { return x }; 8 }; def r = f()
ProgRangeReturn ==
    << N_def("f", N_fn(<<>>, << N_forRange("x", N_num(0), N_num(2), <<N_return(N_var("x"))>>),
                               N_num(8) >>)),
       N_def("r", N_call("f", <<>>)) >>

\* def f = fn(a) { for i in a { print(i); return i }; 8 }; def r = f([10, 20])
ProgForOfReturn ==
    << N_def("f", N_fn(<<"a">>, << N_forOf("i", N_var("a"),
                                           <<CallPrint(N_var("i")), N_return(N_var("i"))>>),
                                  N_num(8) >>)),
       N_def("r", N_call("f", <<N_arr(<<N_num(10), N_num(20)>>)>>)) >>

\* def x = readline("q"); print(x)
ProgReadline ==
    << N_def("x", N_call("readline", <<N_str("q")>>)), CallPrint(N_var("x")) >>

\* print(print(1), 2); def y = [wait(), 3]
ProgNested ==
    << N_call("print", <<CallPrint(N_num(1)), N_num(2)>>),
       N_def("y", N_arr(<<N_call("wait", <<>>), N_num(3)>>)) >>

\* def x = { return 1 }; print(if true { return 2 }); def o = { k: { return 3 } }
ProgLeak ==
    << N_def("x", N_block(<<N_return(N_num(1))>>)),
       CallPrint(N_if(N_bool(TRUE), <<N_return(N_num(2))>>, <<>>, FALSE, <<>>)),
       N_def("o", N_obj(<<"k">>, [k |-> N_block(<<N_return(N_num(3))>>)])) >>

\* 1; return 5; print(9)
ProgTopReturn == << N_num(1), N_return(N_num(5)), CallPrint(N_num(9)) >>

\* def f = fn(c) { if c { 1 } elseif true { { return 3 }; print(0) } else { 4 }; print(1) }
\* def a = f(false); def b = f(true)
ProgNestedReturn ==
    << N_def("f", N_fn(<<"c">>,
          << N_if(N_var("c"), <<N_num(1)>>,
                  << N_elseif(N_bool(TRUE),
                        << N_block(<<N_return(N_num(3))>>), CallPrint(N_num(0)) >>) >>,
                  TRUE, <<N_num(4)>>),
             CallPrint(N_num(1)) >>)),
       N_def("a", N_call("f", <<N_bool(FALSE)>>)),
       N_def("b", N_call("f", <<N_bool(TRUE)>>)) >>

\* def x = 1; def f = fn(a) { x = a; y }; { def y = 2; f(3) }
ProgLexical ==
    << N_def("x", N_num(1)),
       N_def("f", N_fn(<<"a">>, <<N_assign("x", N_var("a")), N_var("y")>>)),
       N_block(<<N_def("y", N_num(2)), N_call("f", <<N_num(3)>>)>>) >>

\* def mk = fn(n) { fn() { n } }; def g = mk(1); def h = mk(2); print(g()); print(h())
ProgClosure ==
    << N_def("mk", N_fn(<<"n">>, <<N_fn(<<>>, <<N_var("n")>>)>>)),
       N_def("g", N_call("mk", <<N_num(1)>>)),
       N_def("h", N_call("mk", <<N_num(2)>>)),
       CallPrint(N_call("g", <<>>)),
       CallPrint(N_call("h", <<>>)) >>

\* def x = 1; { x = 2; def y = 3 }; if false {} else { def z = 4; x = 5 }
\* for i from 0 to 1 { def v = i; x = 6 }; for j in [7] { def w = j }
\* for 1 times { def t = 8 }; print(x)
ProgBlocks ==
    << N_def("x", N_num(1)),
       N_block(<<N_assign("x", N_num(2)), N_def("y", N_num(3))>>),
       N_if(N_bool(FALSE), <<>>, <<>>, TRUE, <<N_def("z", N_num(4)), N_assign("x", N_num(5))>>),
       N_forRange("i", N_num(0), N_num(1), <<N_def("v", N_var("i")), N_assign("x", N_num(6))>>),
       N_forOf("j", N_arr(<<N_num(7)>>), <<N_def("w", N_var("j"))>>),
       N_forTimes(N_num(1), <<N_def("t", N_num(8))>>),
       CallPrint(N_var("x")) >>

\* def n = 0; for 2 times { n = [n]; def d = 1 }
ProgTimesDef ==
    << N_def("n", N_num(0)),
       N_forTimes(N_num(2), <<N_assign("n", N_arr(<<N_var("n")>>)), N_def("d", N_num(1))>>) >>

\* for x from 1 to 3 { print(x) }
ProgRange == << N_forRange("x", N_num(1), N_num(3), <<CallPrint(N_var("x"))>>) >>

\* def o = { a: { p: print } }; o.a.p(o.a.z); o.a
ProgProp ==
    << N_def("o", N_obj(<<"a">>, [a |-> N_obj(<<"p">>, [p |-> N_var("print")])])),
       N_propCall("o", <<"a", "p">>, <<N_prop("o", <<"a", "z">>)>>),
       N_prop("o", <<"a">>) >>

\* wait(); print(readline(1))
ProgWait == << N_call("wait", <<>>), CallPrint(N_call("readline", <<N_num(1)>>)) >>

\* def x = 0; for 2 times { x = [x] }; for 0 times { print(0) }
\* for -1 times { print(0) }; for y from 2 to 2 { print(y) }; for y from 3 to 1 { print(y) }
\* for y from 1 to 3 { print(y) }
ProgLoopCounts ==
    << N_def("x", N_num(0)),
       N_forTimes(N_num(2), <<N_assign("x", N_arr(<<N_var("x")>>))>>),
       N_forTimes(N_num(0), <<CallPrint(N_num(0))>>),
       N_forTimes(N_num(-1), <<CallPrint(N_num(0))>>),
       N_forRange("y", N_num(2), N_num(2), <<CallPrint(N_var("y"))>>),
       N_forRange("y", N_num(3), N_num(1), <<CallPrint(N_var("y"))>>),
       N_forRange("y", N_num(1), N_num(3), <<CallPrint(N_var("y"))>>) >>

\* def y = [wait(), readline("q")]; print(y)
ProgConcurrent ==
    << N_def("y", N_arr(<<N_call("wait", <<>>), N_call("readline", <<N_str("q")>>)>>)),
       CallPrint(N_var("y")) >>

\* def y = [print(readline("q")), z]
ProgSiblingError ==
    << N_def("y", N_arr(<<CallPrint(N_call("readline", <<N_str("q")>>)), N_var("z")>>)) >>

\* def t = fn() { true }; if t() { 1 }
ProgAbortIf ==
    << N_def("t", N_fn(<<>>, <<N_bool(TRUE)>>)),
       N_if(N_call("t", <<>>), <<N_num(1)>>, <<>>, FALSE, <<>>) >>

Programs ==
    { ProgTimesReturn, ProgRangeReturn, ProgForOfReturn, ProgReadline, ProgNested,
      ProgLeak, ProgTopReturn, ProgNestedReturn, ProgLexical, ProgClosure,
      ProgBlocks, ProgTimesDef, ProgRange, ProgProp, ProgWait,
      ProgLoopCounts, ProgConcurrent, ProgSiblingError, ProgAbortIf }

\* the values of opts.maxStep tried
MaxSteps == {<<>>, <<0>>, <<3>>, <<5>>}

\* the root frame: `{ ...vars, ...std, ...io }`
RootFrame == [n \in NativeNames |-> FN_NATIVE(n)]

\* mutant: exec starts the session afresh
ExecClearingStop ==
    /\ Idle /\ budget.exec > 0
    /\ budget' = [budget EXCEPT !.exec = @ - 1]
    /\ stop' = FALSE
    /\ \E p \in Programs :
        /\ tasks' = Append(tasks, ExecTask(p))
        /\ stack' = <<Len(tasks) + 1>>
    /\ UNCHANGED <<stepCount, maxStep, abortHandlers, arrs, hstack, frames,
                   queue, trace>>

\* exec(script)
Exec ==
    /\ Idle /\ budget.exec > 0
    /\ budget' = [budget EXCEPT !.exec = @ - 1]
    /\ \E p \in Programs :
        /\ tasks' = Append(tasks, ExecTask(p))
        /\ stack' = <<Len(tasks) + 1>>
    /\ UNCHANGED <<stepCount, stop, maxStep, abortHandlers, arrs, hstack, frames,
                   queue, trace>>

\* the run started by exec is over and nothing is ready to run
Quiescent ==
    /\ Idle /\ queue = <<>>
    /\ tasks # <<>> /\ tasks[1].status # "active"

ArgLists == {<<>>, <<NUM(1)>>}

\* execFn(fn, args), with a function the host finds in the root scope
ExecFn ==
    /\ Quiescent /\ budget.execFn > 0
    /\ budget' = [budget EXCEPT !.execFn = @ - 1]
    /\ \E n \in DOMAIN frames[1], args \in ArgLists :
        /\ frames[1][n].type = "fn"
        /\ n \notin {"readline", "wait"}
        /\ tasks' = Append(tasks, FnTask(0, 0, frames[1][n], args))
        /\ stack' = <<Len(tasks) + 1>>
    /\ UNCHANGED <<stepCount, stop, maxStep, abortHandlers, arrs, hstack, frames,
                   queue, trace>>

Init ==
    /\ stepCount = 0
    /\ stop = FALSE
    /\ maxStep \in MaxSteps
    /\ abortHandlers = 1
    /\ arrs = << <<>> >>
    /\ hstack = <<>>
    /\ frames = <<RootFrame>>
    /\ tasks = <<>>
    /\ stack = <<>>
    /\ queue = <<>>
    /\ trace = <<>>
    /\ budget = [exec |-> 1, execFn |-> MaxExecFn, abort |-> MaxAbort,
                 register |-> 0, unregister |-> 0]

Next ==
    \/ Exec
    \/ ExecFn
    \/ StepExec
    \/ StepRun
    \/ StepEval
    \/ StepFn
    \/ Resume
    \/ NativeSettle
    \/ Abort
    \/ AbortNext
    \/ AbortReturn

Spec == Init /\ [][Next]_vars

\* JavaScript runs synchronous code to its end and drains the queue of ready
\* continuations; what the host calls and when the outside world completes a
\* pending native is up to them
SpecLive ==
    /\ Init /\ [][Next]_vars
    /\ WF_vars(StepExec) /\ WF_vars(StepRun) /\ WF_vars(StepEval) /\ WF_vars(StepFn)
    /\ WF_vars(Resume) /\ WF_vars(AbortNext) /\ WF_vars(AbortReturn)

\* the registry alone: the host registers, unregisters and aborts, also from
\* inside its handlers
InitRegistry ==
    /\ stepCount = 0
    /\ stop = FALSE
    /\ maxStep = <<>>
    /\ abortHandlers = 1
    /\ arrs = << <<>> >>
    /\ hstack = <<>>
    /\ frames = <<RootFrame>>
    /\ tasks = <<>>
    /\ stack = <<>>
    /\ queue = <<>>
    /\ trace = <<>>
    /\ budget = [exec |-> 0, execFn |-> 0, abort |-> RegAborts,
                 register |-> MaxRegister, unregister |-> MaxUnregister]

NextRegistry ==
    \/ HostRegister
    \/ HostUnregister
    \/ Abort
    \/ AbortNext
    \/ HandlerReturn
    \/ AbortReturn

SpecRegistry == InitRegistry /\ [][NextRegistry]_vars

(***************************************************************************)
(* Reading the history.                                                    *)
(***************************************************************************)
TaskIds == DOMAIN tasks

Kids(id) == {c \in TaskIds : tasks[c].parent = id}

IsEval(id, types) == tasks[id].kind = "eval" /\ tasks[id].node.type \in types

IsLoop(id) == IsEval(id, {"for", "forOf"})

\* the body of a user-defined function is being run by task id
IsUserCall(id) == tasks[id].kind = "fn" /\ tasks[id].fn.native = ""

RECURSIVE EnclosingCall(_)
\* the _fn invocation whose body task id belongs to; 0 at the top level
EnclosingCall(id) ==
    IF id = 0 THEN 0
    ELSE IF tasks[id].kind = "fn" THEN id
    ELSE EnclosingCall(tasks[id].parent)

RECURSIVE StatementOf(_, _)
\* the statement of sequence r that task id is part of (a child of r)
StatementOf(id, r) ==
    IF tasks[id].parent = r THEN id ELSE StatementOf(tasks[id].parent, r)

Returned(id) == tasks[id].status = "done" /\ tasks[id].result.type = "return"

Effects == {"native", "add", "assign"}

\* a loop iteration inside a user function whose body yielded a Return wrapper
ReturningIteration(a) ==
    /\ tasks[a].kind = "run" /\ Returned(a)
    /\ tasks[a].parent # 0 /\ IsLoop(tasks[a].parent)
    /\ EnclosingCall(a) # 0

\* C1: when the body of a times, from..to or forOf loop inside a user function
\* yields a Return wrapper, the loop runs no further iteration, no statement
\* after the loop in the function body is evaluated, and the call yields the
\* returned value.
C1_LoopReturnEndsCall ==
    \A a \in TaskIds :
        ReturningIteration(a) =>
            LET p == tasks[a].parent
                f == EnclosingCall(a)
                body == CHOOSE r \in Kids(f) : TRUE
                s == StatementOf(p, body)
            IN  /\ \A b \in Kids(p) : tasks[b].kind = "run" => b <= a
                /\ \A c \in Kids(body) : c <= s
                /\ tasks[f].status = "done" => tasks[f].result = tasks[a].result.value

\* C2: once abort() has set the stop flag, no native function is invoked and no
\* scope binding is defined or assigned.
C2_NoEffectAfterAbort ==
    \A i, j \in DOMAIN trace :
        (i < j /\ trace[i].ev = "abort") => trace[j].ev \notin Effects

\* C3: once a node evaluation has failed with StepLimitExceeded, no native
\* function is invoked and no scope binding is defined or assigned.
C3_NoEffectAfterStepLimit ==
    \A i, j \in DOMAIN trace :
        (i < j /\ trace[i].ev = "trip") => trace[j].ev \notin Effects

HandlerEvents == {i \in DOMAIN trace : trace[i].ev = "handler"}

AbortReturns == {i \in DOMAIN trace : trace[i].ev = "abortReturn"}

\* C4: abort() is idempotent: whatever the host registers, unregisters and
\* aborts, also from inside a handler, a registered handler is invoked at most
\* once in total, and every abort() leaves the stop flag set and the registry
\* empty.
C4_HandlersFireAtMostOnce ==
    /\ \A i, j \in HandlerEvents : trace[i].h = trace[j].h => i = j
    /\ \A i \in AbortReturns : stop /\ trace[i].left = <<>>

\* the first n handlers of a
FirstN(a, n) == SubSeq(a, 1, IF n < Len(a) THEN n ELSE Len(a))

\* C5: one abort() call invokes every handler that is in the registry when it
\* is called, once each and in registration order, and leaves the registry
\* empty when it returns.
C5_AbortFiresRegistryInOrder ==
    /\ \A k \in DOMAIN hstack :
          hstack[k].kind = "abort" =>
              FirstN(hstack[k].fired, Len(hstack[k].snap))
                  = FirstN(hstack[k].snap, Len(hstack[k].fired))
    /\ \A i \in AbortReturns :
          /\ FirstN(trace[i].fired, Len(trace[i].snap)) = trace[i].snap
          /\ \A a, b \in DOMAIN trace[i].fired :
                trace[i].fired[a] = trace[i].fired[b] => a = b
          /\ trace[i].left = <<>>

\* C5 witness: an abort() has returned that found two handlers of two different
\* functions in the registry, one of which was unregistered while it ran.
C5_Witness ==
    \E i \in AbortReturns :
        /\ Len(trace[i].snap) = 2
        /\ trace[i].snap[1].h # trace[i].snap[2].h
        /\ trace[i].fired = trace[i].snap
        /\ budget.unregister < MaxUnregister

RECURSIVE HoldsReturn(_)
\* v is a Return wrapper, or an array or object holding one
HoldsReturn(v) ==
    \/ v.type = "return"
    \/ v.type = "arr" /\ \E k \in DOMAIN v.value : HoldsReturn(v.value[k])
    \/ v.type = "obj" /\ \E k \in DOMAIN v.value : HoldsReturn(v.value[k])

\* C6: no scope binding, array element or object field holds a Return wrapper,
\* and no function is called with a Return wrapper as an argument.
C6_ReturnNeverStoredOrPassed ==
    /\ \A f \in DOMAIN frames : \A n \in DOMAIN frames[f] : ~HoldsReturn(frames[f][n])
    /\ \A id \in TaskIds :
          tasks[id].kind = "fn" =>
              \A k \in DOMAIN tasks[id].args : ~HoldsReturn(tasks[id].args[k])

\* the task running the body of the user-function call f, if it was started
BodyOf(f) == CHOOSE r \in Kids(f) : TRUE

\* C7: no Return wrapper leaves the statement-sequence runner across a
\* boundary: a call of a user-defined function yields v when its body yields
\* Return(v) and the body's value otherwise, and the value that exec reports
\* in its run-completed event is unwrapped as well.
C7_ReturnUnwrappedAtBoundary ==
    /\ \A f \in TaskIds :
          (IsUserCall(f) /\ tasks[f].status = "done") =>
              LET b == tasks[BodyOf(f)].result
              IN  tasks[f].result = IF b.type = "return" THEN b.value ELSE b
    /\ \A i \in DOMAIN trace : trace[i].ev = "end" => trace[i].val.type # "return"

\* the position in its sequence of the statement that child c of a _run evaluates
StmtIndex(c) == Cardinality({d \in Kids(tasks[c].parent) : d <= c})

IsReturnStmt(c) == tasks[tasks[c].parent].program[StmtIndex(c)].type = "return"

\* statement c of a sequence ends it: a `return` node whose expression has been
\* evaluated, or a statement that yielded a Return wrapper
EndsSequence(c) ==
    tasks[c].status = "done" /\ (IsReturnStmt(c) \/ tasks[c].result.type = "return")

LastKid(r) == CHOOSE c \in Kids(r) : \A d \in Kids(r) : d <= c

\* C8: in a statement sequence, once a `return` node has executed or a
\* statement (a nested block or conditional branch) has yielded a Return
\* wrapper, no later statement is evaluated and the sequence yields the
\* wrapper; blocks and conditionals hand the wrapper of their sequence on
\* unchanged; a sequence in which nothing returns yields the value of its last
\* statement, not wrapped, or Null when it is empty.
C8_ReturnStopsSequence ==
    /\ \A r \in TaskIds : tasks[r].kind = "run" =>
          /\ \A c \in Kids(r) : EndsSequence(c) =>
                /\ \A d \in Kids(r) : d <= c
                /\ tasks[r].status # "failed"
                /\ tasks[r].status = "done" =>
                      tasks[r].result = IF IsReturnStmt(c)
                                        THEN RETURN(tasks[c].result)
                                        ELSE tasks[c].result
          /\ (tasks[r].status = "done" /\ \A c \in Kids(r) : ~EndsSequence(c)) =>
                /\ Cardinality(Kids(r)) = Len(tasks[r].program)
                /\ tasks[r].result.type # "return"
                /\ tasks[r].result = IF Kids(r) = {} THEN NULL
                                     ELSE tasks[LastKid(r)].result
    /\ \A e \in TaskIds :
          (IsEval(e, {"block", "if"}) /\ tasks[e].status = "done") =>
              \A r \in Kids(e) : tasks[r].kind = "run" => tasks[e].result = tasks[r].result

\* C8 witness: a function body whose conditional yielded the Return wrapper of
\* a block nested in its elseif branch has finished with that wrapper, a later
\* statement of the body left unevaluated.
C8_Witness ==
    \E r \in TaskIds : \E c \in Kids(r) : \E b \in Kids(c) : \E k \in Kids(b) :
        /\ tasks[r].kind = "run" /\ tasks[r].status = "done"
        /\ IsEval(c, {"if"}) /\ Returned(c)
        /\ tasks[b].kind = "run" /\ IsEval(k, {"block"}) /\ Returned(k)
        /\ tasks[r].result = tasks[k].result
        /\ StmtIndex(c) < Len(tasks[r].program)
        /\ StmtIndex(k) < Len(tasks[b].program)

Range(q) == {q[k] : k \in DOMAIN q}

\* the scope a user-function call runs its body in is a fresh child of the
\* scope the function captured
C9_BodyScopes ==
    /\ \A f \in TaskIds : (IsUserCall(f) /\ Kids(f) # {}) =>
          LET b == BodyOf(f)
              sc == tasks[b].scope
          IN  /\ Tail(sc) = tasks[f].fn.scope
              /\ Head(sc) \notin Range(tasks[f].fn.scope)
              /\ \A x \in TaskIds : x < b => Head(sc) \notin Range(tasks[x].scope)
              /\ \A g \in TaskIds :
                    (IsUserCall(g) /\ Kids(g) # {} /\ g # f) =>
                        Head(tasks[BodyOf(g)].scope) # Head(sc)
              /\ Range(tasks[f].fn.args) \subseteq DOMAIN frames[Head(sc)]
    /\ \A e \in TaskIds :
          (IsEval(e, {"fn"}) /\ tasks[e].status = "done" /\ tasks[e].result.type = "fn") =>
              tasks[e].result.scope = tasks[e].scope

\* starting the body of a user-function call adds one frame and changes no other
C9_ParamsInNewFrame ==
    \A b \in (DOMAIN tasks') \ (DOMAIN tasks) :
        (tasks'[b].kind = "run" /\ tasks'[b].parent # 0
            /\ tasks'[tasks'[b].parent].kind = "fn") =>
                /\ Len(frames') = Len(frames) + 1
                /\ SubSeq(frames', 1, Len(frames)) = frames
                /\ Head(tasks'[b].scope) = Len(frames')

\* C9: every call of a user-defined function runs its body in a fresh child
\* scope of the scope captured when the function literal was evaluated, never
\* of the caller's scope; the parameters are bound in a frame of their own,
\* which no other invocation sees, and the frames of the captured scope are
\* left as they were.
C9_LexicalCallScope == []C9_BodyScopes /\ [][C9_ParamsInNewFrame]_vars

\* C9 witness: a function called from a block whose scope is not the captured
\* one has failed to read a name that only the caller's scope binds.
C9_Witness ==
    \E f \in TaskIds : \E v \in TaskIds :
        /\ IsUserCall(f) /\ tasks[f].parent # 0
        /\ tasks[tasks[f].parent].scope # tasks[f].fn.scope
        /\ IsEval(v, {"var"}) /\ EnclosingCall(v) = f
        /\ tasks[v].err = UndefinedVariable
        /\ ScopeHas(frames, tasks[tasks[f].parent].scope, tasks[v].node.name)

Adds == {i \in DOMAIN trace : trace[i].ev = "add"}

Assigns == {i \in DOMAIN trace : trace[i].ev = "assign"}

\* the construct whose statement sequence holds the def or assign of event i
Construct(i) == tasks[tasks[trace[i].task].parent].parent

InSequenceOf(i, types) ==
    /\ tasks[tasks[trace[i].task].parent].kind = "run"
    /\ Construct(i) # 0
    /\ IsEval(Construct(i), types)

IsTimesLoop(id) == IsEval(id, {"for"}) /\ tasks[id].node.hasTimes

\* frame fr bound name when event i happened: bindings are never removed, so
\* it binds it now and no later def put it there
BoundAt(fr, name, i) ==
    /\ name \in DOMAIN frames[fr]
    /\ \A j \in Adds : (trace[j].frame = fr /\ trace[j].name = name) => j < i

\* the frame that owned name in scope chain sc when event i happened
OwnerAt(sc, name, i) ==
    LET hits == {k \in DOMAIN sc : BoundAt(sc[k], name, i)}
    IN  sc[CHOOSE k \in hits : \A l \in hits : k <= l]

\* event i is the last write of its binding
LastWrite(i) ==
    \A j \in Adds \cup Assigns :
        (trace[j].frame = trace[i].frame /\ trace[j].name = trace[i].name) => j <= i

\* an assign changes the binding of the innermost frame of its scope chain that
\* binds the name, and the value stays there until the binding is written again
AssignsReachOwner ==
    \A i \in Assigns :
        /\ trace[i].frame = OwnerAt(tasks[trace[i].task].scope, trace[i].name, i)
        /\ LastWrite(i) => frames[trace[i].frame][trace[i].name] = trace[i].value

\* C10 as claimed: a name introduced by def inside a block, a conditional
\* branch or any loop body is not bound in the enclosing scope, while an assign
\* in a nested block to a name of an outer scope changes the outer binding.
C10_DefsLocalToEveryBlock ==
    /\ \A i \in Adds :
          InSequenceOf(i, {"block", "if", "for", "forOf"}) =>
              trace[i].frame \notin Range(tasks[Construct(i)].scope)
    /\ AssignsReachOwner

\* C10 as amended: a name introduced by def inside a block node, a conditional
\* branch or the body of a from..to or forOf loop is not bound in the enclosing
\* scope; a def in the body of a times loop binds the name in the scope the
\* loop statement is evaluated in; an assign in a nested block to a name of an
\* outer scope changes the outer binding, and the value is there afterwards.
C10_DefsLocalExceptTimesLoop ==
    /\ \A i \in Adds :
          /\ (InSequenceOf(i, {"block", "if", "for", "forOf"})
                /\ ~IsTimesLoop(Construct(i))) =>
                  trace[i].frame \notin Range(tasks[Construct(i)].scope)
          /\ (InSequenceOf(i, {"for"}) /\ IsTimesLoop(Construct(i))) =>
                  trace[i].frame = Head(tasks[Construct(i)].scope)
    /\ AssignsReachOwner

\* C10 witness: after a block, a conditional, two loops with a variable and a
\* times loop have each run a def, and nested assigns have changed a root
\* binding, print has been called with the last value assigned.
C10_Witness ==
    /\ \E i \in Adds : InSequenceOf(i, {"block"})
    /\ \E i \in Adds : InSequenceOf(i, {"if"})
    /\ \E i \in Adds : InSequenceOf(i, {"forOf"})
    /\ \E i \in Adds : InSequenceOf(i, {"for"}) /\ ~IsTimesLoop(Construct(i))
    /\ \E i \in Adds : InSequenceOf(i, {"for"}) /\ IsTimesLoop(Construct(i))
    /\ \E i \in Assigns : \E j \in DOMAIN trace :
          /\ InSequenceOf(i, {"for"}) /\ LastWrite(i)
          /\ trace[i].frame # Head(tasks[trace[i].task].scope)
          /\ i < j /\ trace[j].ev = "native" /\ trace[j].args = <<trace[i].value>>

RECURSIVE EnclosingLoop(_)
\* the innermost loop node that task id is evaluated in; 0 if none
EnclosingLoop(id) ==
    IF id = 0 THEN 0
    ELSE IF IsLoop(id) THEN id
    ELSE EnclosingLoop(tasks[id].parent)

RunKids(e) == {c \in Kids(e) : tasks[c].kind = "run"}

EvalKids(e) == {c \in Kids(e) : tasks[c].kind = "eval"}

\* the position of c among the tasks of S, in the order they were started
Rank(c, S) == Cardinality({d \in S : d <= c})

First(S) == CHOOSE c \in S : \A d \in S : c <= d

Last(S) == CHOOSE c \in S : \A d \in S : d <= c

IsRangeLoop(e) == IsEval(e, {"for"}) /\ ~tasks[e].node.hasTimes

\* both bounds of the from..to loop e have been evaluated, to numbers
HasIntegerBounds(e) ==
    /\ Cardinality(EvalKids(e)) = 2
    /\ \A c \in EvalKids(e) : tasks[c].status = "done" /\ tasks[c].result.type = "num"

FromOf(e) == tasks[First(EvalKids(e))].result.value

ToOf(e) == tasks[Last(EvalKids(e))].result.value

\* the scope of run task r is a child of scope sc whose frame no earlier task saw
FreshChildOf(r, sc) ==
    /\ Tail(tasks[r].scope) = sc
    /\ \A x \in TaskIds : x < r => Head(tasks[r].scope) \notin Range(tasks[x].scope)

\* nothing was assigned to name in frame fr
NeverAssigned(fr, name) ==
    \A i \in Assigns : ~(trace[i].frame = fr /\ trace[i].name = name)

\* C11: a ranged loop `for x from a to b` with integer bounds runs its body
\* once for each of a+1, ..., b in increasing order, none when b <= a, each time
\* in a fresh child scope of the loop's scope that binds x to that integer.
C11_RangeLoopIterations ==
    \A e \in TaskIds : (IsRangeLoop(e) /\ HasIntegerBounds(e)) =>
        LET a == FromOf(e)
            b == ToOf(e)
            n == IF b > a THEN b - a ELSE 0
            x == tasks[e].node.var
        IN  /\ Cardinality(RunKids(e)) <= n
            /\ tasks[e].status = "done" =>
                  Cardinality(RunKids(e)) = n /\ tasks[e].result = NULL
            /\ \A r \in RunKids(e) :
                  LET fr == Head(tasks[r].scope)
                  IN  /\ FreshChildOf(r, tasks[e].scope)
                      /\ tasks[r].program = tasks[e].node.s
                      /\ x \in DOMAIN frames[fr]
                      /\ NeverAssigned(fr, x) =>
                            frames[fr][x] = NUM(a + Rank(r, RunKids(e)))

Natives == {i \in DOMAIN trace : trace[i].ev = "native"}

\* C11 witness: `for y from 1 to 3` has finished after exactly two iterations
\* that printed 2 and then 3, and a loop from 3 to 1 has finished after none.
C11_Witness ==
    /\ \E e \in TaskIds :
          /\ IsRangeLoop(e) /\ HasIntegerBounds(e) /\ tasks[e].status = "done"
          /\ FromOf(e) = 1 /\ ToOf(e) = 3 /\ Cardinality(RunKids(e)) = 2
          /\ \E i, j \in Natives :
                /\ i < j
                /\ trace[i].args = <<NUM(2)>> /\ trace[j].args = <<NUM(3)>>
                /\ EnclosingLoop(trace[i].task) = e /\ EnclosingLoop(trace[j].task) = e
    /\ \E e \in TaskIds :
          /\ IsRangeLoop(e) /\ HasIntegerBounds(e) /\ tasks[e].status = "done"
          /\ FromOf(e) = 3 /\ ToOf(e) = 1 /\ RunKids(e) = {}

\* the count of the times loop e has been evaluated, to a number
HasIntegerCount(e) ==
    /\ Cardinality(EvalKids(e)) = 1
    /\ \A c \in EvalKids(e) : tasks[c].status = "done" /\ tasks[c].result.type = "num"

TimesOf(e) == tasks[First(EvalKids(e))].result.value

\* def statement d of iteration r has evaluated its expression and gone on to scope.add
DefAttempted(d) ==
    /\ Kids(d) # {} /\ \A k \in Kids(d) : tasks[k].status = "done"
    /\ tasks[d].status # "active"

\* the statement that d executes was a def that succeeded in the first iteration of e
DefinedInFirstIteration(d, e) ==
    \E i \in Adds :
        /\ tasks[trace[i].task].parent = First(RunKids(e))
        /\ StmtIndex(trace[i].task) = StmtIndex(d)

\* C12: a counted loop `for n times` with integer n runs its body max(n, 0)
\* times, every iteration in the very scope the loop statement is evaluated in:
\* what the body assigns is written to that scope chain, and a def of the body
\* that succeeded in iteration 1 fails with DuplicateDeclaration in iteration 2,
\* which ends the loop.
C12_CountedLoopSharesScope ==
    \A e \in TaskIds : (IsTimesLoop(e) /\ HasIntegerCount(e)) =>
        LET n == IF TimesOf(e) > 0 THEN TimesOf(e) ELSE 0
        IN  /\ Cardinality(RunKids(e)) <= n
            /\ tasks[e].status = "done" =>
                  Cardinality(RunKids(e)) = n /\ tasks[e].result = NULL
            /\ \A r \in RunKids(e) :
                  /\ tasks[r].scope = tasks[e].scope
                  /\ tasks[r].program = tasks[e].node.s
                  /\ \A i \in Adds \cup Assigns :
                        tasks[trace[i].task].parent = r =>
                            trace[i].frame \in Range(tasks[e].scope)
                  /\ \A d \in Kids(r) :
                        (IsEval(d, {"def"}) /\ Rank(r, RunKids(e)) >= 2
                            /\ DefAttempted(d) /\ DefinedInFirstIteration(d, e)) =>
                                /\ tasks[d].err = DuplicateDeclaration
                                /\ r = Last(RunKids(e))
                                /\ tasks[e].status # "done"

\* C12 witness: `for 2 times { n = [n]; def d = 1 }` has failed with
\* DuplicateDeclaration in its second iteration, n having been wrapped twice.
C12_Witness ==
    \E e \in TaskIds :
        /\ IsTimesLoop(e) /\ HasIntegerCount(e) /\ TimesOf(e) = 2
        /\ Cardinality(RunKids(e)) = 2
        /\ tasks[e].status = "failed" /\ tasks[e].err = DuplicateDeclaration
        /\ frames[Head(tasks[e].scope)]["n"] = ARR(<<ARR(<<NUM(0)>>)>>)
        /\ "d" \in DOMAIN frames[Head(tasks[e].scope)]

RECURSIVE Under(_, _)
\* task x was started, directly or not, by task c
Under(x, c) ==
    IF x = 0 THEN FALSE
    ELSE IF x = c THEN TRUE
    ELSE Under(tasks[x].parent, c)

RECURSIVE InLastStatements(_)
\* task x belongs to the last statement started so far of every statement
\* sequence it is part of
InLastStatements(x) ==
    LET p == tasks[x].parent
    IN  IF p = 0 THEN TRUE
        ELSE /\ tasks[p].kind = "run" => \A d \in Kids(p) : d <= x
             /\ InLastStatements(p)

\* C13: the statements of a sequence execute in source order without
\* interleaving: when a later statement has been started, every node evaluation
\* and native call started by an earlier one has completed.  (A native is
\* invoked by a call that is pending right after, so none is invoked on behalf
\* of a statement once a later one has been started.)
C13_StatementsInSourceOrder ==
    \A x \in TaskIds : tasks[x].status # "done" => InLastStatements(x)

\* C13 witness: a statement whose array literal issued two asynchronous native
\* calls side by side has been followed by a statement that invoked a native.
C13_Witness ==
    \E r \in TaskIds : \E c, d \in Kids(r) : \E a \in TaskIds : \E i, j, k \in Natives :
        /\ tasks[r].kind = "run" /\ c < d
        /\ IsEval(a, {"arr"}) /\ Under(a, c)
        /\ i < j /\ j < k
        /\ trace[i].name = "wait" /\ trace[j].name = "readline"
        /\ Under(trace[i].task, a) /\ Under(trace[j].task, a)
        /\ trace[k].name = "print" /\ Under(trace[k].task, d)
        /\ ~stop

\* a step leaves a set stop flag set, and sets it only as part of abort()
StopOnlySetByAbort ==
    /\ stop => stop'
    /\ (stop' /\ ~stop) => trace' = Append(trace, EvAbort)

\* C14: the stop flag is one-way: false when the session is created, set only
\* by abort(), and once set it stays set whatever is called afterwards.
C14_StopIsOneWay == ~stop /\ [][StopOnlySetByAbort]_vars

\* C14 witness: the session was aborted before anything else; exec and execFn
\* were called afterwards and have returned, and the flag is still set.
C14_Witness ==
    /\ stop /\ trace # <<>> /\ trace[1] = EvAbort
    /\ budget.exec = 0 /\ budget.execFn = 0
    /\ Idle /\ queue = <<>>
    /\ \A id \in TaskIds : tasks[id].status # "active"

Trips == {i \in DOMAIN trace : trace[i].ev = "trip"}

\* the entries into _eval that went on to the switch
Dispatched == stepCount - Cardinality(Trips)

\* C15: whenever a maximum step count is configured, 0 included, an entry into
\* the evaluator that raises the counter above it fails with StepLimitExceeded
\* instead of dispatching the node, so the number of nodes dispatched never
\* exceeds the maximum.
C15_ConfiguredLimitBoundsDispatch ==
    maxStep # <<>> =>
        /\ Dispatched <= maxStep[1]
        /\ stepCount > maxStep[1] => Trips # {}

\* the calls of the host: exec and execFn
Roots == {r \in TaskIds : tasks[r].parent = 0}

\* a failure anywhere in a run fails the call of the host that started it
FailureReachesCaller ==
    \A x \in TaskIds : \A r \in Roots :
        (tasks[x].status = "failed" /\ Under(x, r)) => tasks[r].status # "done"

\* once the host's call has failed, its run starts no evaluation or call and
\* has no side effect
NothingAfterFailure ==
    \A r \in Roots : tasks[r].status = "failed" =>
        /\ \A b \in (DOMAIN tasks') \ (DOMAIN tasks) : ~Under(tasks'[b].parent, r)
        /\ (Len(trace') > Len(trace) /\ trace'[Len(trace')].ev \in Effects) =>
              ~Under(trace'[Len(trace')].task, r)

\* C16: when a node evaluation or a native call fails, the error is delivered
\* to the caller of exec / execFn and the whole run stops: after the delivery
\* no node of that run is evaluated, no native is invoked and no binding
\* changes, also not by sibling evaluations started before the failure.
C16_ErrorStopsWholeRun == []FailureReachesCaller /\ [][NothingAfterFailure]_vars

\* this step is an entry into _eval
EntersEval ==
    /\ stack # <<>> /\ tasks[Top].kind = "eval"
    /\ tasks[Top].pc = "start" /\ tasks[Top].wait = "none"
    /\ tasks' # tasks

\* this step is _run taking up a `return` node
RunTakesReturn ==
    \E b \in (DOMAIN tasks') \ (DOMAIN tasks) :
        LET r == tasks'[b].parent
        IN  r # 0 /\ tasks'[r].kind = "run" /\ tasks'[r].program[tasks'[r].i].type = "return"

One(b) == IF b THEN 1 ELSE 0

\* C17 as claimed: the step counter starts at 0, never decreases, and while
\* the stop flag is clear it rises by exactly one for each node executed, be
\* it dispatched by _eval or a `return` node handled by _run.
C17_CountsEveryNodeExecuted ==
    /\ stepCount = 0
    /\ [][stepCount' = stepCount + One(~stop /\ EntersEval) + One(~stop /\ RunTakesReturn)]_vars

\* C17 as amended: the step counter starts at 0, never decreases, and rises
\* by exactly one at each entry into _eval that finds the stop flag clear and
\* at no other step: a `return` node taken up by _run does not raise it, only
\* the evaluation of its expression does.
C17_CountsEvalEntries ==
    /\ stepCount = 0
    /\ [][/\ stepCount' = stepCount + One(~stop /\ EntersEval)
          /\ RunTakesReturn => stepCount' = stepCount]_vars

\* C17 witness: a run that executed a `return` node is over, never stopped,
\* and the counter equals the number of entries into _eval.
C17_Witness ==
    /\ Quiescent /\ ~stop /\ trace # <<>> /\ trace[Len(trace)].ev = "end"
    /\ \E c \in TaskIds :
          tasks[c].parent # 0 /\ tasks[tasks[c].parent].kind = "run" /\ IsReturnStmt(c)
    /\ stepCount = Cardinality({id \in TaskIds : tasks[id].kind = "eval"})
    /\ stepCount > 0

\* the programs whose run fails when nobody aborts it and no step limit is on
FailsUnaborted == {ProgLexical, ProgTimesDef, ProgWait, ProgSiblingError}

LimitOn == maxStep # <<>> /\ maxStep[1] # 0

\* C18: an abort() never makes a run fail: a run that completes without error
\* when it is not aborted raises no error either when abort() is called at
\* some point of it.
C18_AbortNeverFailsRun ==
    (tasks # <<>> /\ ~LimitOn /\ tasks[1].program \notin FailsUnaborted) =>
        tasks[1].status # "failed"

\* abort() was called and the run started by exec is not over
AbortedInProgress == stop /\ tasks # <<>> /\ tasks[1].status = "active"

\* the promise of exec has settled
RunOver == tasks # <<>> /\ tasks[1].status # "active"

\* the run has called an asynchronous native that registers no abort handler
HandlerlessNativeUsed == \E i \in Natives : trace[i].name = "readline"

\* C19: when abort() is called while a run is in progress and every pending
\* native of the run registers an abort handler and completes when it is
\* invoked, the run terminates: no native is left waiting on a handler that was
\* registered after abort() fired.
C19_AbortedRunTerminates == AbortedInProgress ~> (RunOver \/ HandlerlessNativeUsed)

Registers == {i \in DOMAIN trace : trace[i].ev = "register"}

Unregisters == {i \in DOMAIN trace : trace[i].ev = "unregister"}

\* the registry entry invoked at event j was pushed after event i
RegisteredAfter(j, i) == \E k \in Registers : trace[k].h = trace[j].h /\ i < k

\* the function of entry e was unregistered before event r
RemovedBefore(e, r) == \E i \in Unregisters : i < r /\ SameHandler(trace[i].h, e)

\* C20: a handler removed with unregisterAbortHandler and not registered again
\* is never invoked by abort(), also when another handler removes it while
\* abort() is firing; the handlers that were not removed are invoked, in the
\* order of their registration.
C20_UnregisteredNeverInvoked ==
    /\ \A j \in HandlerEvents : \A i \in Unregisters :
          (i < j /\ SameHandler(trace[i].h, trace[j].h)) => RegisteredAfter(j, i)
    /\ \A r \in AbortReturns :
          /\ \A a, b \in DOMAIN trace[r].fired :
                a < b => trace[r].fired[a].reg < trace[r].fired[b].reg
          /\ \A e \in Range(trace[r].snap) :
                e \in Range(trace[r].fired) \/ RemovedBefore(e, r)

====
